---- MODULE Spec2Model ----
(***************************************************************************)
(* Track similarity graph and discovery engine of the 3D music player.     *)
(*                                                                         *)
(* Track ids are modelled as positive integers (the catalog <<1, .., n>>   *)
(* in catalog order); JavaScript null and undefined are two values that    *)
(* are no track id.  Weights, similarities and distances are kept in       *)
(* hundredths, so that 0.5 is 50 and 1 - w is 100 - w; the arithmetic is   *)
(* exact.                                                                  *)
(***************************************************************************)
EXTENDS Integers, Sequences, FiniteSets, TLC

VARIABLES
    tracks,             \* MusicPlayer3D.tracks: the catalog, ids in order
    connections,        \* MusicPlayer3D.connections: the connection list
    trackMap,           \* MusicPlayer3D.trackMap: undefined, or id -> sphere
    startTrackId,       \* calculateShortestPath: first argument
    endTrackId,         \* calculateShortestPath: second argument
    pc,                 \* position inside calculateShortestPath
    graph,              \* local: adjacency lists
    distances,          \* local: Map id -> distance
    previous,           \* local: Map id -> id | null
    pathLengths,        \* local: Map id -> hop count
    visited,            \* local: Set of ids
    path,               \* local: the array built by the reconstruction loop
    current,            \* local: loop variable of the reconstruction loop
    result,             \* the value returned (NullPath for null)
    iterations,         \* history: iterations of the reconstruction loop
    similarityContext,  \* MusicPlayer3D.similarityContext
    activeConnections,  \* MusicPlayer3D.activeConnections: key -> lines
    lastAnchor,         \* history: anchor of the latest neighbourhood query
    discoveryMode,      \* MusicPlayer3D.discoveryMode
    pathfindingState,   \* MusicPlayer3D.pathfindingState
    selectedTracks,     \* MusicPlayer3D.selectedTracks: the playlist, ids
    currentTrackIndex,  \* MusicPlayer3D.currentTrackIndex (0-based, or -1)
    clickedSpheres,     \* MusicPlayer3D.clickedSpheres
    localStorage,       \* the list stored under "musicPlayer_selectedTracks"
    lastOp,             \* history: the latest operation of the player
                        \* (name, arguments, track started, path computed)
    track1,             \* calculateTrackSimilarity: first argument
    track2,             \* calculateTrackSimilarity: second argument
    simPc,              \* position of the calculateTrackSimilarity call
    trackSimilarity,    \* the value calculateTrackSimilarity returned
    trackPositions,     \* createGravitationalPath: its argument
    flowPath,           \* createGravitationalPath: local path
    flowPc              \* position inside createGravitationalPath

pathVars == <<startTrackId, endTrackId, pc, graph, distances, previous,
              pathLengths, visited, path, current, result, iterations>>
uiVars == <<similarityContext, activeConnections, lastAnchor>>
dataVars == <<tracks, connections, trackMap>>
playerVars == <<discoveryMode, pathfindingState, selectedTracks,
                currentTrackIndex, clickedSpheres, localStorage, lastOp>>
simVars == <<track1, track2, simPc, trackSimilarity>>
flowVars == <<trackPositions, flowPath, flowPc>>
vars == <<tracks, connections, trackMap, startTrackId, endTrackId, pc, graph,
          distances, previous, pathLengths, visited, path, current, result,
          iterations, similarityContext, activeConnections, lastAnchor,
          discoveryMode, pathfindingState, selectedTracks, currentTrackIndex,
          clickedSpheres, localStorage, lastOp, track1, track2, simPc,
          trackSimilarity, trackPositions, flowPath, flowPc>>

----------------------------------------------------------------------------
(* Values *)

Null == 0
Undefined == 0 - 1
Absent == 0 - 2
Infinity == 1000000
NullPath == <<>>
NoAnchor == 0 - 3

targetPathLength == 10
maxPathLength_OffByOne == 25 + 1
maxPathLength == 25
DefaultWeight == 50
One == 100
LengthPenaltyFactor == 50
LongPathPenaltyFactor == 30

(* Bounds of the explored inputs *)
MaxTracks == 27
SmallTracks == 3
PlayerTracks == 2
MaxGenes == 2

UnknownId == MaxTracks + 5

----------------------------------------------------------------------------
(* JavaScript helpers *)

\* a || b: a number or undefined is falsy when it is undefined or 0
Truthy(x) == x # Absent /\ x # 0

\* Map.prototype.get: undefined for a key the map does not hold
MapGet(m, k) == IF k \in DOMAIN m THEN m[k] ELSE Undefined

Abs(x) == IF x < 0 THEN 0 - x ELSE x

SeqToSet(s) == {s[i] : i \in 1..Len(s)}

CatalogIds == SeqToSet(tracks)

----------------------------------------------------------------------------
(* createConnections: the track map exists only for a non-empty list *)

CreateTrackMap(trks, conns) ==
    IF Len(conns) = 0
    THEN [built |-> FALSE, keys |-> {}]
    ELSE [built |-> TRUE, keys |-> SeqToSet(trks)]

----------------------------------------------------------------------------
(* calculateShortestPath: graph build *)

ConnectionWeight(c) ==
    IF Truthy(c.weight) THEN c.weight
    ELSE IF Truthy(c.similarity) THEN c.similarity
    ELSE DefaultWeight

ForwardEntry(c) == [target |-> c.target, weight |-> ConnectionWeight(c)]

BackwardEntry_WrongTarget(c) ==
    [target |-> c.target, weight |-> ConnectionWeight(c)]
BackwardEntry(c) == [target |-> c.source, weight |-> ConnectionWeight(c)]

EmptyGraph(trks) == [id \in SeqToSet(trks) |-> <<>>]

RECURSIVE AddConnections(_, _)
AddConnections(g, conns) ==
    IF conns = <<>> THEN g
    ELSE LET c == Head(conns) IN
         IF c.source \in DOMAIN g /\ c.target \in DOMAIN g
         THEN LET g1 == [g EXCEPT ![c.source] = Append(@, ForwardEntry(c))]
                  g2 == [g1 EXCEPT ![c.target] = Append(@, BackwardEntry(c))]
              IN AddConnections(g2, Tail(conns))
         ELSE AddConnections(g, Tail(conns))

BuildGraph(trks, conns) == AddConnections(EmptyGraph(trks), conns)

InitDistances(trks, start) ==
    [id \in SeqToSet(trks) |-> IF id = start THEN 0 ELSE Infinity]
InitPrevious(trks) == [id \in SeqToSet(trks) |-> Null]
InitPathLengths(trks, start) ==
    [id \in SeqToSet(trks) |-> IF id = start THEN 0 ELSE Infinity]

----------------------------------------------------------------------------
(* calculateShortestPath: node selection and relaxation *)

\* for (const [trackId, distance] of distances): Map order is catalog order
RECURSIVE SelectCurrent(_, _, _, _, _, _)
SelectCurrent(order, i, dist, vis, cur, smallest) ==
    IF i > Len(order) THEN [current |-> cur, smallestDistance |-> smallest]
    ELSE LET id == order[i] IN
         IF id \notin vis /\ dist[id] < smallest
         THEN SelectCurrent(order, i + 1, dist, vis, id, dist[id])
         ELSE SelectCurrent(order, i + 1, dist, vis, cur, smallest)

\* graph.get(current) || []
Neighbors_OfFirstTrack(g, cur) == IF 1 \in DOMAIN g THEN g[1] ELSE <<>>
Neighbors(g, cur) == IF cur \in DOMAIN g THEN g[cur] ELSE <<>>

HopCost_BaseOnly(neighbor, newPathLength) == One - neighbor.weight
HopCost(neighbor, newPathLength) ==
    LET baseDistance == One - neighbor.weight
        lengthDeviation == Abs(newPathLength - targetPathLength)
        lengthPenalty == lengthDeviation * LengthPenaltyFactor
        longPathPenalty ==
            IF newPathLength > targetPathLength
            THEN (newPathLength - targetPathLength) * LongPathPenaltyFactor
            ELSE 0
    IN baseDistance + lengthPenalty + longPathPenalty

\* neighbors.forEach(...): st = [distances, previous, pathLengths]
RECURSIVE Relax(_, _, _, _)
Relax(neighbors, cur, vis, st) ==
    IF neighbors = <<>> THEN st
    ELSE LET neighbor == Head(neighbors)
             newPathLength == st.pathLengths[cur] + 1
             distance == st.distances[cur] + HopCost(neighbor, newPathLength)
         IN
         IF neighbor.target \in vis \/ newPathLength > maxPathLength
         THEN Relax(Tail(neighbors), cur, vis, st)
         ELSE IF distance < st.distances[neighbor.target]
         THEN Relax(Tail(neighbors), cur, vis,
                    [distances |-> [st.distances EXCEPT
                                        ![neighbor.target] = distance],
                     previous |-> [st.previous EXCEPT
                                        ![neighbor.target] = cur],
                     pathLengths |-> [st.pathLengths EXCEPT
                                        ![neighbor.target] = newPathLength]])
         ELSE Relax(Tail(neighbors), cur, vis, st)

----------------------------------------------------------------------------
(* calculateShortestPath: path reconstruction and the final test *)

Unshift(p, id) == <<id>> \o p

AcceptPath_AtLeastOne(p, start) ==
    /\ Len(p) >= 1
    /\ p[1] = start
    /\ Len(p) <= maxPathLength + 1
AcceptPath(p, start) ==
    /\ Len(p) > 1
    /\ p[1] = start
    /\ Len(p) <= maxPathLength + 1

\* The reconstruction loop has no exit for an id that `previous` does not
\* hold: each further iteration unshifts undefined.  The model keeps at most
\* PathCap(trks) entries of the growing array, and counts the iterations up
\* to PathCap(trks) and from there on by their parity.
PathCap(trks) == Len(trks) + 2

NextIteration(n, trks) ==
    IF n < PathCap(trks) + 1 THEN n + 1 ELSE PathCap(trks)

----------------------------------------------------------------------------
(* showSimilarTracks *)

ConnectedTrack_AlwaysTarget(connection, trackId) == connection.target
ConnectedTrack(connection, trackId) ==
    IF connection.source = trackId THEN connection.target
    ELSE connection.source

\* connections.forEach(...): st = [context, lines]
RECURSIVE CollectSimilar(_, _, _, _)
CollectSimilar(conns, trackId, keys, st) ==
    IF conns = <<>> THEN st
    ELSE LET connection == Head(conns)
             connectedTrack == ConnectedTrack(connection, trackId)
         IN
         IF /\ (connection.source = trackId \/ connection.target = trackId)
            /\ connection.source \in keys
            /\ connection.target \in keys
         THEN CollectSimilar(Tail(conns), trackId, keys,
                  [context |-> st.context \cup {connectedTrack},
                   lines |-> Append(st.lines,
                                    <<connection.source, connection.target>>)])
         ELSE CollectSimilar(Tail(conns), trackId, keys, st)

ClearedContext_Keep(ctx) == ctx
ClearedContext(ctx) == {}

MapSet(m, k, v) == [x \in DOMAIN m \cup {k} |-> IF x = k THEN v ELSE m[x]]

----------------------------------------------------------------------------
(* Inputs *)

Conn(s, t, w, sim) ==
    [source |-> s, target |-> t, weight |-> w, similarity |-> sim]

Catalog(n) == [i \in 1..n |-> i]

\* <<weight, similarity>> of a connection: present, zero or absent
FieldPairs == {<<90, Absent>>, <<90, 40>>, <<0, Absent>>, <<0, 40>>,
               <<Absent, 40>>, <<Absent, Absent>>}
PlainPairs == {<<90, Absent>>, <<Absent, 40>>}

SmallIds(n) == (1..n) \cup {UnknownId}

ConnsOver(n, pairs) ==
    {Conn(s, t, f[1], f[2]) : s \in SmallIds(n), t \in SmallIds(n), f \in pairs}

\* the connection lists tried on a catalog of n tracks: the empty list,
\* every single connection, every pair of plain connections
SmallConnections(n) ==
    \/ connections = <<>>
    \/ \E c \in ConnsOver(n, FieldPairs) : connections = <<c>>
    \/ \E c \in ConnsOver(n, PlainPairs), d \in ConnsOver(n, PlainPairs) :
          connections = <<c, d>>

\* the empty catalog, and every catalog of 1..SmallTracks tracks with every
\* connection list above
SmallGraph ==
    \/ tracks = <<>> /\ connections = <<>>
    \/ \E n \in 1..SmallTracks : tracks = Catalog(n) /\ SmallConnections(n)

SmallInput ==
    /\ SmallGraph
    /\ startTrackId \in SmallIds(Len(tracks))
    /\ endTrackId \in SmallIds(Len(tracks))

\* a chain 1 - 2 - ... - n, optionally followed by one more connection
Chain(n) == [i \in 1..(n - 1) |-> Conn(i, i + 1, 90, Absent)]

Chords(n) == {<<>>, <<Conn(1, 3, 50, Absent)>>, <<Conn(1, n, 50, Absent)>>,
              <<Conn(2, UnknownId, 50, Absent)>>}

ChainInput ==
    \E n \in (SmallTracks + 1)..MaxTracks :
        /\ tracks = Catalog(n)
        /\ \E ch \in Chords(n) : connections = Chain(n) \o ch
        /\ startTrackId \in {1, 2, n, UnknownId}
        /\ endTrackId \in {1, n - 1, n, UnknownId}

\* a chain with the connection 1 - 3 of weight 0.8: the route over 2 and the
\* route over the connection have the same summed 1 - w
EqualCostChord == <<Conn(1, 3, 80, Absent)>>

EqualCostInput ==
    \E n \in (SmallTracks + 1)..(targetPathLength + 3) :
        /\ tracks = Catalog(n)
        /\ connections = Chain(n) \o EqualCostChord
        /\ startTrackId = 1
        /\ endTrackId \in {n - 1, n}

\* a chain 1 - ... - (n - 1) and the track n beside it, joined to the
\* tracks that are targetPathLength - 2 and targetPathLength - 1 hops
\* from track 1 by connections of weight 1
Detour(n) ==
    <<Conn(targetPathLength - 1, n, One, Absent),
      Conn(n, targetPathLength, One, Absent)>>

DetourInput ==
    /\ tracks = Catalog(MaxTracks)
    /\ connections = Chain(MaxTracks - 1) \o Detour(MaxTracks)
    /\ startTrackId = 1
    /\ endTrackId \in {maxPathLength, maxPathLength + 1}

----------------------------------------------------------------------------
(* State *)

PathIdle ==
    /\ graph = <<>>
    /\ distances = <<>>
    /\ previous = <<>>
    /\ pathLengths = <<>>
    /\ visited = {}
    /\ path = <<>>
    /\ current = Null
    /\ result = NullPath
    /\ iterations = 0

UIInit ==
    /\ similarityContext = {}
    /\ activeConnections = <<>>
    /\ lastAnchor = NoAnchor

\* the player as its constructor leaves it, with nothing restored
NoOp == [op |-> "none", type |-> "", arg |-> Null, played |-> FALSE,
         ran |-> FALSE, path |-> NullPath,
         before |-> [selectedTracks |-> <<>>, currentTrackIndex |-> 0 - 1]]

PlayerIdle ==
    /\ discoveryMode = "none"
    /\ pathfindingState = [startTrack |-> Null, endTrack |-> Null,
                           settingStart |-> FALSE, settingEnd |-> FALSE]
    /\ selectedTracks = <<>>
    /\ currentTrackIndex = 0 - 1
    /\ clickedSpheres = {}
    /\ localStorage = <<>>
    /\ lastOp = NoOp

\* a track without emotional coordinates and without sonic_dna
BareTrack == [coordinates |-> <<>>, sonic_dna |-> <<>>]

SimilarityIdle ==
    /\ track1 = BareTrack
    /\ track2 = BareTrack
    /\ simPc = "idle"
    /\ trackSimilarity = 0

\* createGravitationalPath has not been called
FlowIdle ==
    /\ trackPositions = <<>>
    /\ flowPath = <<>>
    /\ flowPc = "idle"

InitPath ==
    /\ SmallInput \/ ChainInput \/ EqualCostInput \/ DetourInput
    /\ trackMap = CreateTrackMap(tracks, connections)
    /\ pc = "call"
    /\ PathIdle
    /\ UIInit
    /\ PlayerIdle
    /\ SimilarityIdle
    /\ FlowIdle

\* lines 107-138: the guard, the graph and the three maps
Call ==
    /\ pc = "call"
    /\ IF ~trackMap.built
       THEN /\ result' = NullPath
            /\ pc' = "done"
            /\ UNCHANGED <<graph, distances, previous, pathLengths>>
       ELSE /\ graph' = BuildGraph(tracks, connections)
            /\ distances' = InitDistances(tracks, startTrackId)
            /\ previous' = InitPrevious(tracks)
            /\ pathLengths' = InitPathLengths(tracks, startTrackId)
            /\ pc' = "select"
            /\ UNCHANGED result
    /\ UNCHANGED <<startTrackId, endTrackId, visited, path, current,
                   iterations>>
    /\ UNCHANGED dataVars
    /\ UNCHANGED <<simVars, flowVars>>
    /\ UNCHANGED uiVars
    /\ UNCHANGED playerVars

\* lines 143-196: one iteration of while (true)
SelectNode ==
    /\ pc = "select"
    /\ LET sel == SelectCurrent(tracks, 1, distances, visited, Null, Infinity)
           cur == sel.current
       IN
       IF \/ cur = Null
          \/ sel.smallestDistance = Infinity
          \/ cur = endTrackId
       THEN /\ pc' = "reconstruct"
            /\ path' = <<>>
            /\ current' = endTrackId
            /\ UNCHANGED <<distances, previous, pathLengths, visited>>
       ELSE IF pathLengths[cur] >= maxPathLength
       THEN /\ visited' = visited \cup {cur}
            /\ UNCHANGED <<pc, path, current, distances, previous,
                           pathLengths>>
       ELSE LET neighbors == Neighbors(graph, cur)
                st == Relax(neighbors, cur, visited \cup {cur},
                            [distances |-> distances, previous |-> previous,
                             pathLengths |-> pathLengths])
            IN /\ visited' = visited \cup {cur}
               /\ distances' = st.distances
               /\ previous' = st.previous
               /\ pathLengths' = st.pathLengths
               /\ UNCHANGED <<pc, path, current>>
    /\ UNCHANGED <<startTrackId, endTrackId, graph, result, iterations>>
    /\ UNCHANGED dataVars
    /\ UNCHANGED <<simVars, flowVars>>
    /\ UNCHANGED uiVars
    /\ UNCHANGED playerVars

\* lines 201-204: one iteration of while (current !== null)
ReconstructStep ==
    /\ pc = "reconstruct"
    /\ current # Null
    /\ path' = IF Len(path) < PathCap(tracks) THEN Unshift(path, current)
               ELSE path
    /\ current' = MapGet(previous, current)
    /\ iterations' = NextIteration(iterations, tracks)
    /\ UNCHANGED <<startTrackId, endTrackId, pc, graph, distances, previous,
                   pathLengths, visited, result>>
    /\ UNCHANGED dataVars
    /\ UNCHANGED <<simVars, flowVars>>
    /\ UNCHANGED uiVars
    /\ UNCHANGED playerVars

\* lines 206-214: the final test and the return
Return ==
    /\ pc = "reconstruct"
    /\ current = Null
    /\ result' = IF AcceptPath(path, startTrackId) THEN path ELSE NullPath
    /\ pc' = "done"
    /\ UNCHANGED <<startTrackId, endTrackId, graph, distances, previous,
                   pathLengths, visited, path, current, iterations>>
    /\ UNCHANGED dataVars
    /\ UNCHANGED <<simVars, flowVars>>
    /\ UNCHANGED uiVars
    /\ UNCHANGED playerVars

NextPath == Call \/ SelectNode \/ ReconstructStep \/ Return

SpecPath == InitPath /\ [][NextPath]_vars

\* the inputs of the termination checks: the same small catalogs, and the
\* plain chains searched from their first track
InitPathFair ==
    /\ InitPath
    /\ Len(tracks) > SmallTracks =>
          (startTrackId = 1 /\ Len(connections) = Len(tracks) - 1)

\* the call runs to completion: no step of it is postponed for ever
FairSpecPath == InitPathFair /\ [][NextPath]_vars /\ WF_vars(NextPath)

----------------------------------------------------------------------------
(* Neighbourhood queries *)

InitSimilar ==
    /\ SmallGraph
    /\ trackMap = CreateTrackMap(tracks, connections)
    /\ startTrackId = Null
    /\ endTrackId = Null
    /\ pc = "idle"
    /\ PathIdle
    /\ UIInit
    /\ PlayerIdle
    /\ SimilarityIdle
    /\ FlowIdle

ShowSimilarTracks(trackId) ==
    /\ IF ~trackMap.built
       THEN UNCHANGED <<similarityContext, activeConnections>>
       ELSE LET st == CollectSimilar(connections, trackId, trackMap.keys,
                          [context |-> ClearedContext(similarityContext)
                                           \cup {trackId},
                           lines |-> <<>>])
            IN /\ similarityContext' = st.context
               /\ activeConnections' = MapSet(activeConnections, trackId,
                                              st.lines)
    /\ lastAnchor' = trackId
    /\ UNCHANGED pathVars
    /\ UNCHANGED dataVars
    /\ UNCHANGED <<simVars, flowVars>>
    /\ UNCHANGED playerVars

NextSimilar == \E trackId \in CatalogIds \cup {UnknownId} :
                   ShowSimilarTracks(trackId)

SpecSimilar == InitSimilar /\ [][NextSimilar]_vars

----------------------------------------------------------------------------
(* Claims about calculateShortestPath, checked under SpecPath / FairSpecPath *)

Returned == pc = "done"

\* connection c joins the ids a and b, in either direction
Joins(c, a, b) ==
    \/ (c.source = a /\ c.target = b)
    \/ (c.source = b /\ c.target = a)

Connection(k) == connections[k]

\* C1: a non-null path returned by calculateShortestPath has at most 25 hops,
\* that is at most 26 track ids.
C1_HopBound ==
    (Returned /\ result # NullPath) => Len(result) - 1 <= 25

\* a path of exactly 25 hops is returned
C1_Witness == Returned /\ Len(result) = 26

\* C2: a non-null path returned starts at start, ends at end, joins every
\* consecutive pair by a connection whose two endpoints are catalog tracks,
\* and holds no track id twice.
C2_PathWellFormed ==
    (Returned /\ result # NullPath) =>
        /\ result[1] = startTrackId
        /\ result[Len(result)] = endTrackId
        /\ \A i \in 1..(Len(result) - 1) :
              \E k \in 1..Len(connections) :
                  /\ Joins(Connection(k), result[i], result[i + 1])
                  /\ Connection(k).source \in CatalogIds
                  /\ Connection(k).target \in CatalogIds
        /\ \A i, j \in 1..Len(result) : i # j => result[i] # result[j]

\* a path of at least two hops between two different tracks is returned
C2_Witness ==
    Returned /\ Len(result) >= 3 /\ startTrackId # endTrackId

\* C3: calculateShortestPath terminates for every catalog, connection list,
\* start id and end id, unknown ids included: the call reaches its return.
C3_Terminates == <>Returned

\* C4: when start or end is not the id of a catalog track, the call returns
\* null: it does return, and what it returns is no path.
C4_UnknownIdReturnsNull ==
    (startTrackId \notin CatalogIds \/ endTrackId \notin CatalogIds)
        ~> (Returned /\ result = NullPath)

\* C5 as stated: with start = end a catalog track, the call returns the
\* single-node path <<start>>.
C5_SingleNodePath ==
    (Returned /\ startTrackId = endTrackId /\ startTrackId \in CatalogIds)
        => result = <<startTrackId>>

\* C5 as amended: with start = end a catalog track, the call returns null
\* (the final test requires more than one id in the path).
C5_SameTrackReturnsNull ==
    (Returned /\ startTrackId = endTrackId /\ startTrackId \in CatalogIds)
        => result = NullPath

\* the search ran and reconstructed the single-node path before rejecting it
C5_Witness ==
    /\ Returned
    /\ startTrackId = endTrackId
    /\ startTrackId \in CatalogIds
    /\ path = <<startTrackId>>

GraphBuilt == pc \in {"select", "reconstruct", "done"} /\ Len(connections) > 0

EntryCount(list, t, w) ==
    Cardinality({i \in 1..Len(list) : list[i].target = t /\ list[i].weight = w})

EntryWeights ==
    UNION {{graph[a][i].weight : i \in 1..Len(graph[a])} : a \in DOMAIN graph}

ValidConnection(c) == c.source \in CatalogIds /\ c.target \in CatalogIds

\* C6: the adjacency structure is symmetric: every connection (A, B) between
\* catalog tracks puts B in A's list and A in B's list with one and the same
\* weight, and every entry of a list has its mirror entry in the other list.
C6_GraphSymmetric ==
    GraphBuilt =>
        /\ \A k \in 1..Len(connections) :
              ValidConnection(Connection(k)) =>
                  \E w \in EntryWeights :
                      /\ EntryCount(graph[Connection(k).source],
                                    Connection(k).target, w) > 0
                      /\ EntryCount(graph[Connection(k).target],
                                    Connection(k).source, w) > 0
        /\ \A a \in CatalogIds, b \in CatalogIds, w \in EntryWeights :
              a # b => EntryCount(graph[a], b, w) = EntryCount(graph[b], a, w)

\* a connection between two different catalog tracks has been entered
C6_Witness ==
    /\ GraphBuilt
    /\ \E k \in 1..Len(connections) :
          /\ ValidConnection(Connection(k))
          /\ Connection(k).source # Connection(k).target

ClaimedWeight(c) ==
    IF c.weight # Absent THEN c.weight
    ELSE IF c.similarity # Absent THEN c.similarity
    ELSE 50

\* C7: a connection that carries a weight field is entered with exactly that
\* weight, weight 0 included; similarity is used only when weight is absent,
\* and 0.5 only when both are absent.
C7_WeightAsGiven ==
    GraphBuilt =>
        \A k \in 1..Len(connections) :
            ValidConnection(Connection(k)) =>
                /\ EntryCount(graph[Connection(k).source],
                              Connection(k).target,
                              ClaimedWeight(Connection(k))) > 0
                /\ EntryCount(graph[Connection(k).target],
                              Connection(k).source,
                              ClaimedWeight(Connection(k))) > 0

----------------------------------------------------------------------------
(* Claims about showSimilarTracks, checked under SpecSimilar *)

\* the other endpoints of the connections that touch a
JoinedTo(a) ==
    {Connection(k).target : k \in {j \in 1..Len(connections) :
                                       Connection(j).source = a}}
    \cup {Connection(k).source : k \in {j \in 1..Len(connections) :
                                            Connection(j).target = a}}

\* the same, over the connections whose two endpoints are catalog tracks
CatalogJoinedTo(a) ==
    {Connection(k).target : k \in {j \in 1..Len(connections) :
            ValidConnection(Connection(j)) /\ Connection(j).source = a}}
    \cup {Connection(k).source : k \in {j \in 1..Len(connections) :
            ValidConnection(Connection(j)) /\ Connection(j).target = a}}

\* C8 as stated: for a catalog anchor, showSimilarTracks leaves the context
\* equal to the anchor and every id some connection joins to the anchor.
C8_ContextIsAnchorAndJoined ==
    lastAnchor \in CatalogIds =>
        similarityContext = {lastAnchor} \cup JoinedTo(lastAnchor)

\* C8 as amended: for a catalog anchor and a non-empty connection list, the
\* context is the anchor and every id joined to it by a connection whose two
\* endpoints are catalog tracks (so nothing two or more hops away); with an
\* empty connection list the call leaves the context as it was, empty.
C8_ContextIsAnchorAndCatalogJoined ==
    lastAnchor \in CatalogIds =>
        IF Len(connections) > 0
        THEN similarityContext = {lastAnchor} \cup CatalogJoinedTo(lastAnchor)
        ELSE similarityContext = {}

\* a catalog anchor with a neighbour, and some catalog track left out
C8_Witness ==
    /\ lastAnchor \in CatalogIds
    /\ Cardinality(similarityContext) >= 2
    /\ CatalogIds \ similarityContext # {}

C10_UnknownAnchorEmptyContext ==
    (lastAnchor # NoAnchor /\ lastAnchor \notin CatalogIds) =>
        similarityContext = {}

----------------------------------------------------------------------------
(* The player: discovery modes, sphere clicks and the playlist *)

\* keys of activeConnections that are no track id
PlaylistKey == 0 - 4
PathKey == 0 - 5

MapDelete(m, k) == [x \in DOMAIN m \ {k} |-> m[x]]

\* Array.prototype.findIndex, 0-based: -1 when no element is the id
RECURSIVE FindIndexFrom(_, _, _)
FindIndexFrom(list, id, i) ==
    IF i > Len(list) THEN 0 - 1
    ELSE IF list[i] = id THEN i - 1
    ELSE FindIndexFrom(list, id, i + 1)

FindIndex(list, id) == FindIndexFrom(list, id, 1)

\* Array.prototype.splice(index, 1), index 0-based
Splice(list, index) ==
    [i \in 1..(Len(list) - 1) |-> IF i <= index THEN list[i] ELSE list[i + 1]]

Max(a, b) == IF a > b THEN a ELSE b

\* the segments drawn between consecutive tracks of a list: one for each pair
\* whose two tracks have a sphere
RECURSIVE SegmentsFrom(_, _, _)
SegmentsFrom(list, keys, i) ==
    IF i >= Len(list) THEN <<>>
    ELSE IF list[i] \in keys /\ list[i + 1] \in keys
    THEN <<(<<list[i], list[i + 1]>>)>> \o SegmentsFrom(list, keys, i + 1)
    ELSE SegmentsFrom(list, keys, i + 1)

Segments(list, keys) == SegmentsFrom(list, keys, 1)

\* onCanvasClick while an endpoint is awaited
StartTrackSet_FlagKept(ps, trackId) == [ps EXCEPT !.startTrack = trackId]
StartTrackSet(ps, trackId) ==
    [ps EXCEPT !.startTrack = trackId, !.settingStart = FALSE]

EndTrackSet(ps, trackId) ==
    [ps EXCEPT !.endTrack = trackId, !.settingEnd = FALSE]

\* setPathfindingMode: the two flags
WithSettingFlags_OtherKept(ps, type) ==
    IF type = "start" THEN [ps EXCEPT !.settingStart = TRUE]
    ELSE IF type = "end" THEN [ps EXCEPT !.settingEnd = TRUE]
    ELSE ps
WithSettingFlags(ps, type) ==
    IF type = "start"
    THEN [ps EXCEPT !.settingStart = TRUE, !.settingEnd = FALSE]
    ELSE IF type = "end"
    THEN [ps EXCEPT !.settingStart = FALSE, !.settingEnd = TRUE]
    ELSE ps

\* findShortestPath: the test of its first line, negated
BothEndpointsSet_EndOnly(ps) == Truthy(ps.endTrack)
BothEndpointsSet(ps) == Truthy(ps.startTrack) /\ Truthy(ps.endTrack)

\* selectedTracks.push(track)
Pushed_InFront(list, trackId) == <<trackId>> \o list
Pushed(list, trackId) == Append(list, trackId)

\* toggleSimilarMode: the pathfinding sub-state it installs
ResetPathfindingState_KeepEndpoints(ps) ==
    [ps EXCEPT !.settingStart = FALSE, !.settingEnd = FALSE]
ResetPathfindingState(ps) ==
    [startTrack |-> Null, endTrack |-> Null,
     settingStart |-> FALSE, settingEnd |-> FALSE]

\* clearConnectionsOnly: every entry but the playlist entry goes, and the
\* clicked set is rebuilt from the playlist
KeptConnections_All(ac) == ac
KeptConnections(ac) == [k \in DOMAIN ac \cap {PlaylistKey} |-> ac[k]]

ClearConnectionsOnly(ac, sel) ==
    [activeConnections |-> KeptConnections(ac),
     clickedSpheres |-> SeqToSet(sel)]

\* showPlaylistConnections
ShowPlaylistConnections(mode, ac, sel, tm) ==
    IF mode # "none" THEN ac
    ELSE IF Len(sel) < 2 THEN MapDelete(ac, PlaylistKey)
    ELSE IF ~tm.built THEN ac
    ELSE MapSet(ac, PlaylistKey, Segments(sel, tm.keys))

\* showSimilarTracks, as a function of the context and the entries
SimilarTracksShown(ctx, ac, trackId, conns, tm) ==
    IF ~tm.built
    THEN [similarityContext |-> ctx, activeConnections |-> ac]
    ELSE LET st == CollectSimilar(conns, trackId, tm.keys,
                       [context |-> ClearedContext(ctx) \cup {trackId},
                        lines |-> <<>>])
         IN [similarityContext |-> st.context,
             activeConnections |-> MapSet(ac, trackId, st.lines)]

\* addConnectionsForSphere
AddConnectionsForSphere(mode, ctx, ac, trackId, conns, tm) ==
    IF mode = "similar" THEN SimilarTracksShown(ctx, ac, trackId, conns, tm)
    ELSE [similarityContext |-> ctx, activeConnections |-> ac]

\* addToSelectedTracks: pl = [selectedTracks, currentTrackIndex, localStorage]
AddToSelectedTracks(pl, trackId) ==
    LET existing == FindIndex(pl.selectedTracks, trackId) IN
    IF existing = 0 - 1
    THEN LET pushed == Pushed(pl.selectedTracks, trackId) IN
         [selectedTracks |-> pushed,
          currentTrackIndex |-> Len(pushed) - 1,
          localStorage |-> pushed]
    ELSE [pl EXCEPT !.currentTrackIndex = existing]

\* removeFromSelectedTracks, up to saveSelectedTracks
RemoveFromSelectedTracks_Unsaved(pl, trackId) ==
    LET index == FindIndex(pl.selectedTracks, trackId) IN
    IF index = 0 - 1 THEN pl
    ELSE [pl EXCEPT !.selectedTracks = Splice(pl.selectedTracks, index),
                    !.currentTrackIndex =
                        IF Len(pl.selectedTracks) = 1 THEN 0 - 1
                        ELSE IF pl.currentTrackIndex >= index
                        THEN Max(0, pl.currentTrackIndex - 1)
                        ELSE pl.currentTrackIndex]
RemoveFromSelectedTracks(pl, trackId) ==
    LET index == FindIndex(pl.selectedTracks, trackId) IN
    IF index = 0 - 1 THEN pl
    ELSE LET spliced == Splice(pl.selectedTracks, index)
             moved == IF pl.currentTrackIndex >= index
                      THEN Max(0, pl.currentTrackIndex - 1)
                      ELSE pl.currentTrackIndex
         IN [selectedTracks |-> spliced,
             currentTrackIndex |-> IF Len(spliced) = 0 THEN 0 - 1 ELSE moved,
             localStorage |-> spliced]

\* calculateShortestPath as one call: the while (true) loop of lines 143-196
RECURSIVE Search(_, _, _, _, _)
Search(trks, g, end, vis, st) ==
    LET sel == SelectCurrent(trks, 1, st.distances, vis, Null, Infinity)
        cur == sel.current
    IN
    IF cur = Null \/ sel.smallestDistance = Infinity \/ cur = end THEN st
    ELSE IF st.pathLengths[cur] >= maxPathLength
    THEN Search(trks, g, end, vis \cup {cur}, st)
    ELSE Search(trks, g, end, vis \cup {cur},
                Relax(Neighbors(g, cur), cur, vis \cup {cur}, st))

\* the loop of lines 201-204; it ends when cur is an id previous holds
RECURSIVE Reconstruct(_, _, _)
Reconstruct(prev, cur, p) ==
    IF cur = Null THEN p
    ELSE Reconstruct(prev, MapGet(prev, cur), Unshift(p, cur))

\* the value a call returns, for an end id that is a catalog track or null
CalculateShortestPath(trks, conns, tm, start, end) ==
    IF ~tm.built THEN NullPath
    ELSE LET st == Search(trks, BuildGraph(trks, conns), end, {},
                          [distances |-> InitDistances(trks, start),
                           previous |-> InitPrevious(trks),
                           pathLengths |-> InitPathLengths(trks, start)])
             p == Reconstruct(st.previous, end, <<>>)
         IN IF AcceptPath(p, start) THEN p ELSE NullPath

\* showPath: the 'path' entry
ShowPath(ac, p, tm) == MapSet(ac, PathKey, Segments(p, tm.keys))

\* addPathToPlaylist, the forEach of lines 278-298:
\* st = [selectedTracks, clickedSpheres, addedCount]
RECURSIVE PushPathTracks(_, _, _, _)
PushPathTracks(p, trks, tm, st) ==
    IF p = <<>> THEN st
    ELSE LET trackId == Head(p) IN
         IF trackId \in SeqToSet(trks)
            /\ FindIndex(st.selectedTracks, trackId) = 0 - 1
         THEN PushPathTracks(Tail(p), trks, tm,
                  [selectedTracks |-> Pushed(st.selectedTracks, trackId),
                   clickedSpheres |->
                       IF tm.built /\ trackId \in tm.keys
                       THEN st.clickedSpheres \cup {trackId}
                       ELSE st.clickedSpheres,
                   addedCount |-> st.addedCount + 1])
         ELSE PushPathTracks(Tail(p), trks, tm, st)

\* addPathToPlaylist, lines 300-324: the index it leaves current, and
\* whether playTrackByIndex started a track
FirstPathTrackIndex_Last(sel, p) == Len(sel) - 1
FirstPathTrackIndex(sel, p) == FindIndex(sel, p[1])

PathTrackPlayed(cti, sel, p, addedCount) ==
    LET firstPathTrackIndex == FirstPathTrackIndex(sel, p) IN
    IF cti = 0 - 1 /\ Len(sel) > 0
    THEN [currentTrackIndex |-> IF firstPathTrackIndex # 0 - 1
                                THEN firstPathTrackIndex ELSE 0,
          played |-> TRUE]
    ELSE IF /\ addedCount > 0
            /\ firstPathTrackIndex # 0 - 1
            /\ firstPathTrackIndex # cti
    THEN [currentTrackIndex |-> firstPathTrackIndex, played |-> TRUE]
    ELSE [currentTrackIndex |-> cti, played |-> FALSE]

----------------------------------------------------------------------------
(* The player: state after init(), and its operations *)

\* catalogs of the player runs: PlayerTracks tracks without connections, and
\* in a chain followed by a connection to an id that is no track
PlayerConnections(n) == {<<>>, Chain(n) \o <<Conn(n, UnknownId, 50, Absent)>>}

PlayerGraph ==
    /\ tracks = Catalog(PlayerTracks)
    /\ connections \in PlayerConnections(PlayerTracks)

\* playlists a previous session may have stored: none, tracks of this
\* catalog, and a track the catalog no longer holds
SavedPlaylists == {<<>>, <<1>>, <<2, 1>>, <<1, UnknownId, 2>>}

\* restoreVisualSelections: the tracks of the list that have a sphere
RestoredSpheres(sel, trks) == SeqToSet(sel) \cap SeqToSet(trks)

Init ==
    /\ PlayerGraph
    /\ trackMap = CreateTrackMap(tracks, connections)
    /\ startTrackId = Null
    /\ endTrackId = Null
    /\ pc = "idle"
    /\ PathIdle
    /\ similarityContext = {}
    /\ lastAnchor = NoAnchor
    /\ discoveryMode = "none"
    /\ pathfindingState = [startTrack |-> Null, endTrack |-> Null,
                           settingStart |-> FALSE, settingEnd |-> FALSE]
    /\ localStorage \in SavedPlaylists
    /\ selectedTracks = localStorage
    /\ currentTrackIndex = 0 - 1
    /\ clickedSpheres = RestoredSpheres(selectedTracks, tracks)
    /\ activeConnections = ShowPlaylistConnections("none", <<>>,
                               selectedTracks, trackMap)
    /\ lastOp = NoOp
    /\ SimilarityIdle
    /\ FlowIdle

\* the record of an operation: its name and arguments, whether it started
\* a track, whether it ran calculateShortestPath, what that returned, and
\* the playlist and the current index the run found
Op(name, type, arg, played) ==
    [NoOp EXCEPT !.op = name, !.type = type, !.arg = arg, !.played = played]

PathOp(played, p) ==
    [op |-> "findShortestPath", type |-> "", arg |-> Null, played |-> played,
     ran |-> TRUE, path |-> p,
     before |-> [selectedTracks |-> selectedTracks,
                 currentTrackIndex |-> currentTrackIndex]]

ToggleSimilarMode ==
    LET cleared == ClearConnectionsOnly(activeConnections, selectedTracks) IN
    /\ IF discoveryMode = "similar"
       THEN /\ discoveryMode' = "none"
            /\ activeConnections' =
                   ShowPlaylistConnections("none", cleared.activeConnections,
                                           selectedTracks, trackMap)
            /\ UNCHANGED pathfindingState
       ELSE /\ discoveryMode' = "similar"
            /\ pathfindingState' = ResetPathfindingState(pathfindingState)
            /\ activeConnections' = cleared.activeConnections
    /\ clickedSpheres' = cleared.clickedSpheres
    /\ similarityContext' = {}
    /\ lastOp' = Op("toggleSimilarMode", "", Null, FALSE)
    /\ UNCHANGED <<selectedTracks, currentTrackIndex, localStorage, lastAnchor>>
    /\ UNCHANGED pathVars
    /\ UNCHANGED dataVars
    /\ UNCHANGED <<simVars, flowVars>>

SetPathfindingMode(type) ==
    LET cleared == ClearConnectionsOnly(activeConnections, selectedTracks) IN
    /\ discoveryMode' = "pathfinding"
    /\ activeConnections' = cleared.activeConnections
    /\ clickedSpheres' = cleared.clickedSpheres
    /\ pathfindingState' = WithSettingFlags(pathfindingState, type)
    /\ lastOp' = Op("setPathfindingMode", type, Null, FALSE)
    /\ UNCHANGED <<selectedTracks, currentTrackIndex, localStorage,
                   similarityContext, lastAnchor>>
    /\ UNCHANGED pathVars
    /\ UNCHANGED dataVars
    /\ UNCHANGED <<simVars, flowVars>>

\* onCanvasClick on the sphere of a catalog track, toggleSphereConnections
\* included; updateSelectedTracksList (the list element is in the page)
\* ends with showPlaylistConnections
Click(trackId) ==
    IF discoveryMode = "pathfinding" /\ pathfindingState.settingStart
    THEN /\ pathfindingState' = StartTrackSet(pathfindingState, trackId)
         /\ lastOp' = Op("click", "", trackId, FALSE)
         /\ UNCHANGED <<discoveryMode, selectedTracks, currentTrackIndex,
                        clickedSpheres, localStorage>>
         /\ UNCHANGED uiVars
         /\ UNCHANGED pathVars
         /\ UNCHANGED dataVars
         /\ UNCHANGED <<simVars, flowVars>>
    ELSE IF discoveryMode = "pathfinding" /\ pathfindingState.settingEnd
    THEN /\ pathfindingState' = EndTrackSet(pathfindingState, trackId)
         /\ lastOp' = Op("click", "", trackId, FALSE)
         /\ UNCHANGED <<discoveryMode, selectedTracks, currentTrackIndex,
                        clickedSpheres, localStorage>>
         /\ UNCHANGED uiVars
         /\ UNCHANGED pathVars
         /\ UNCHANGED dataVars
         /\ UNCHANGED <<simVars, flowVars>>
    ELSE LET pl == [selectedTracks |-> selectedTracks,
                    currentTrackIndex |-> currentTrackIndex,
                    localStorage |-> localStorage]
         IN
         /\ IF trackId \in clickedSpheres
            THEN LET removed == RemoveFromSelectedTracks(pl, trackId)
                     kept == MapDelete(activeConnections, trackId)
                 IN /\ activeConnections' =
                           IF FindIndex(selectedTracks, trackId) # 0 - 1
                           THEN ShowPlaylistConnections(discoveryMode, kept,
                                    removed.selectedTracks, trackMap)
                           ELSE kept
                    /\ clickedSpheres' = clickedSpheres \ {trackId}
                    /\ selectedTracks' = removed.selectedTracks
                    /\ currentTrackIndex' = removed.currentTrackIndex
                    /\ localStorage' = removed.localStorage
                    /\ lastOp' = Op("click", "", trackId, FALSE)
                    /\ UNCHANGED <<similarityContext, lastAnchor>>
            ELSE LET shown == AddConnectionsForSphere(discoveryMode,
                                  similarityContext, activeConnections,
                                  trackId, connections, trackMap)
                     added == AddToSelectedTracks(pl, trackId)
                 IN /\ similarityContext' = shown.similarityContext
                    /\ activeConnections' =
                           ShowPlaylistConnections(discoveryMode,
                               shown.activeConnections, added.selectedTracks,
                               trackMap)
                    /\ UNCHANGED lastAnchor
                    /\ clickedSpheres' = clickedSpheres \cup {trackId}
                    /\ selectedTracks' = added.selectedTracks
                    /\ currentTrackIndex' = added.currentTrackIndex
                    /\ localStorage' = added.localStorage
                    /\ lastOp' = Op("click", "", trackId, TRUE)
         /\ UNCHANGED <<discoveryMode, pathfindingState>>
         /\ UNCHANGED pathVars
         /\ UNCHANGED dataVars
         /\ UNCHANGED <<simVars, flowVars>>

\* findShortestPath, with showPath and addPathToPlaylist; the call of
\* calculateShortestPath returns for an end that is a catalog track or null
FindShortestPath ==
    IF ~BothEndpointsSet(pathfindingState)
    THEN /\ lastOp' = Op("findShortestPath", "", Null, FALSE)
         /\ UNCHANGED <<discoveryMode, pathfindingState, selectedTracks,
                        currentTrackIndex, clickedSpheres, localStorage>>
         /\ UNCHANGED uiVars
         /\ UNCHANGED pathVars
         /\ UNCHANGED dataVars
         /\ UNCHANGED <<simVars, flowVars>>
    ELSE LET cleared == ClearConnectionsOnly(activeConnections,
                                             selectedTracks)
             p == CalculateShortestPath(tracks, connections, trackMap,
                      pathfindingState.startTrack, pathfindingState.endTrack)
         IN
         /\ pathfindingState.endTrack \in CatalogIds \cup {Null}
         /\ IF p # NullPath /\ Len(p) > 1
            THEN LET pushed == PushPathTracks(p, tracks, trackMap,
                         [selectedTracks |-> selectedTracks,
                          clickedSpheres |-> cleared.clickedSpheres,
                          addedCount |-> 0])
                     now == PathTrackPlayed(currentTrackIndex,
                                pushed.selectedTracks, p, pushed.addedCount)
                 IN /\ selectedTracks' = pushed.selectedTracks
                    /\ clickedSpheres' = pushed.clickedSpheres
                    /\ currentTrackIndex' = now.currentTrackIndex
                    /\ localStorage' = pushed.selectedTracks
                    /\ activeConnections' =
                           ShowPlaylistConnections(discoveryMode,
                               ShowPath(cleared.activeConnections, p,
                                        trackMap),
                               pushed.selectedTracks, trackMap)
                    /\ lastOp' = PathOp(now.played, p)
            ELSE /\ activeConnections' = cleared.activeConnections
                 /\ clickedSpheres' = cleared.clickedSpheres
                 /\ lastOp' = PathOp(FALSE, p)
                 /\ UNCHANGED <<selectedTracks, currentTrackIndex,
                                localStorage>>
         /\ UNCHANGED pathVars
         /\ UNCHANGED <<discoveryMode, pathfindingState, similarityContext,
                        lastAnchor>>
         /\ UNCHANGED dataVars
         /\ UNCHANGED <<simVars, flowVars>>

Next ==
    \/ ToggleSimilarMode
    \/ \E type \in {"start", "end"} : SetPathfindingMode(type)
    \/ \E trackId \in CatalogIds : Click(trackId)
    \/ FindShortestPath

Spec == Init /\ [][Next]_vars

----------------------------------------------------------------------------
(* Claims about the discovery modes, checked under Spec *)

Modes == {"none", "similar", "pathfinding"}

\* the keys of activeConnections that are highlight entries
HighlightKeys == DOMAIN activeConnections \ {PlaylistKey}

\* C11: in every state reachable by toggleSimilarMode, setPathfindingMode,
\* track clicks and findShortestPath, discoveryMode is one of none, similar,
\* pathfinding; settingStart and settingEnd are never both true; and a true
\* flag or a non-null endpoint implies discoveryMode = pathfinding.
C11_ModeInvariant ==
    /\ discoveryMode \in Modes
    /\ ~(pathfindingState.settingStart /\ pathfindingState.settingEnd)
    /\ (\/ pathfindingState.settingStart
        \/ pathfindingState.settingEnd
        \/ pathfindingState.startTrack # Null
        \/ pathfindingState.endTrack # Null) => discoveryMode = "pathfinding"

\* an end point is awaited while one is set already
C11_Witness ==
    /\ lastOp.op = "setPathfindingMode"
    /\ lastOp.type = "end"
    /\ pathfindingState.settingEnd
    /\ pathfindingState.startTrack = Null
    /\ pathfindingState.endTrack # Null

\* C12: a click while discoveryMode = pathfinding and settingStart is true
\* sets startTrack to the clicked id and clears settingStart (the same for
\* settingEnd and endTrack), and changes nothing else: playlist, current
\* index, clicked spheres, context, mode, highlight entries and the other
\* endpoint stay as they were, and no track is started.
C12_EndpointClickOnly ==
    [][(/\ lastOp'.op = "click"
        /\ discoveryMode = "pathfinding"
        /\ (pathfindingState.settingStart \/ pathfindingState.settingEnd))
       => /\ pathfindingState' =
                 IF pathfindingState.settingStart
                 THEN [pathfindingState EXCEPT !.startTrack = lastOp'.arg,
                                               !.settingStart = FALSE]
                 ELSE [pathfindingState EXCEPT !.endTrack = lastOp'.arg,
                                               !.settingEnd = FALSE]
          /\ ~lastOp'.played
          /\ UNCHANGED <<selectedTracks, currentTrackIndex, clickedSpheres,
                         similarityContext, discoveryMode, activeConnections,
                         localStorage>>]_vars

\* a click on a selected track became the start point: the track is still
\* selected and nothing was started
C12_Witness ==
    /\ lastOp.op = "click"
    /\ ~lastOp.played
    /\ discoveryMode = "pathfinding"
    /\ pathfindingState.startTrack = lastOp.arg
    /\ pathfindingState.endTrack # lastOp.arg
    /\ lastOp.arg \in clickedSpheres

\* C13: setPathfindingMode('start') yields discoveryMode = pathfinding with
\* settingStart true and settingEnd false, and leaves no entry of
\* activeConnections but the playlist entry; 'end' the same with the flags
\* swapped; neither changes startTrack or endTrack.
C13_SetPathfindingMode ==
    [][lastOp'.op = "setPathfindingMode"
       => /\ discoveryMode' = "pathfinding"
          /\ pathfindingState'.settingStart = (lastOp'.type = "start")
          /\ pathfindingState'.settingEnd = (lastOp'.type = "end")
          /\ DOMAIN activeConnections' \subseteq {PlaylistKey}
          /\ pathfindingState'.startTrack = pathfindingState.startTrack
          /\ pathfindingState'.endTrack = pathfindingState.endTrack]_vars

\* the end point is awaited while a start point is set and the playlist
\* entry is kept
C13_Witness ==
    /\ lastOp.op = "setPathfindingMode"
    /\ lastOp.type = "end"
    /\ pathfindingState.startTrack # Null
    /\ PlaylistKey \in DOMAIN activeConnections

\* C14: toggleSimilarMode called in mode none or pathfinding yields mode
\* similar, an empty context, no per-anchor and no path entry, and the
\* pathfinding sub-state reset to null endpoints and false flags.
C14_EnterSimilar ==
    (lastOp.op = "toggleSimilarMode" /\ discoveryMode # "none") =>
        /\ discoveryMode = "similar"
        /\ similarityContext = {}
        /\ HighlightKeys = {}
        /\ pathfindingState.startTrack = Null
        /\ pathfindingState.endTrack = Null
        /\ ~pathfindingState.settingStart
        /\ ~pathfindingState.settingEnd

\* similar mode was entered with a playlist whose connections are drawn
C14_Witness ==
    /\ lastOp.op = "toggleSimilarMode"
    /\ discoveryMode = "similar"
    /\ PlaylistKey \in DOMAIN activeConnections

\* the consecutive pairs of a list
Pairs(list) == [i \in 1..(Len(list) - 1) |-> <<list[i], list[i + 1]>>]

\* C15: toggleSimilarMode called in mode similar yields mode none,
\* an empty context, no per-anchor entry, and a playlist entry with one
\* segment per consecutive playlist pair when the playlist has at least two
\* tracks, no playlist entry otherwise.
C15_PlaylistRestored ==
    (lastOp.op = "toggleSimilarMode" /\ discoveryMode = "none") =>
        /\ similarityContext = {}
        /\ DOMAIN activeConnections \cap CatalogIds = {}
        /\ IF Len(selectedTracks) >= 2
           THEN /\ PlaylistKey \in DOMAIN activeConnections
                /\ activeConnections[PlaylistKey] = Pairs(selectedTracks)
           ELSE PlaylistKey \notin DOMAIN activeConnections

\* C16: findShortestPath with a null start or end does nothing: the
\* pathfinder is not run, and mode, pathfinding sub-state, entries, clicked
\* spheres, playlist and current index stay as they were.
C16_NoEndpointsNoSearch ==
    [][(/\ lastOp'.op = "findShortestPath"
        /\ (\/ pathfindingState.startTrack = Null
            \/ pathfindingState.endTrack = Null))
       => /\ ~lastOp'.ran
          /\ UNCHANGED <<discoveryMode, pathfindingState, activeConnections,
                         clickedSpheres, selectedTracks, currentTrackIndex,
                         similarityContext, localStorage>>]_vars

\* the search was asked for with only the end point set
C16_Witness ==
    /\ lastOp.op = "findShortestPath"
    /\ ~lastOp.ran
    /\ pathfindingState.startTrack = Null
    /\ pathfindingState.endTrack # Null

\* findShortestPath found a path: it went on to showPath and addPathToPlaylist
PathFound ==
    /\ lastOp.op = "findShortestPath"
    /\ lastOp.ran
    /\ Len(lastOp.path) > 1

NotSelectedBefore(trackId) ==
    trackId \notin SeqToSet(lastOp.before.selectedTracks)

\* C17: after findShortestPath found a path, every track of the path is in
\* the playlist exactly once, every track that was in the playlist keeps its
\* position, and the new tracks follow them in path order.
C17_PathAppended ==
    PathFound =>
        LET old == lastOp.before.selectedTracks IN
        /\ \A i \in 1..Len(lastOp.path) :
              Cardinality({j \in 1..Len(selectedTracks) :
                               selectedTracks[j] = lastOp.path[i]}) = 1
        /\ Len(selectedTracks) >= Len(old)
        /\ \A j \in 1..Len(old) : selectedTracks[j] = old[j]
        /\ SubSeq(selectedTracks, Len(old) + 1, Len(selectedTracks)) =
               SelectSeq(lastOp.path, NotSelectedBefore)

\* a path was found of which one track was in the playlist and one was not
C17_Witness ==
    /\ PathFound
    /\ Len(selectedTracks) > Len(lastOp.before.selectedTracks)
    /\ \E i \in 1..Len(lastOp.path) : ~NotSelectedBefore(lastOp.path[i])

\* C18: when findShortestPath found a path and currentTrackIndex was -1,
\* currentTrackIndex is afterwards the playlist index of the first path
\* track, the start track, whether it was appended or already there.
C18_FirstPathTrackCurrent ==
    (PathFound /\ lastOp.before.currentTrackIndex = 0 - 1) =>
        /\ currentTrackIndex >= 0
        /\ currentTrackIndex < Len(selectedTracks)
        /\ selectedTracks[currentTrackIndex + 1] = lastOp.path[1]
        /\ lastOp.path[1] = pathfindingState.startTrack

\* nothing was current, and the start track was in the playlist already,
\* behind another track
C18_Witness ==
    /\ PathFound
    /\ lastOp.before.currentTrackIndex = 0 - 1
    /\ ~NotSelectedBefore(lastOp.path[1])
    /\ currentTrackIndex > 0

----------------------------------------------------------------------------
(* calculateTrackSimilarity *)

\* An optional field is <<>> when the track lacks it and <<v>> when it holds
\* v.  Coordinates and similarities are in hundredths; Math.sqrt is taken
\* to the hundredth below, the rounding of doubles is not modelled.
Present(field) == field # <<>>
Value(field) == field[1]

EmotionalWeight == 40
GeneWeight == 30
GeneticWeight == 60
DefaultSimilarity == 50

\* the largest r with lo <= r < hi and r * r <= n
RECURSIVE SqrtBetween(_, _, _)
SqrtBetween(n, lo, hi) ==
    IF hi - lo <= 1 THEN lo
    ELSE LET mid == (lo + hi) \div 2 IN
         IF mid * mid <= n THEN SqrtBetween(n, mid, hi)
         ELSE SqrtBetween(n, lo, mid)

Sqrt(n) == SqrtBetween(n, 0, n + 1)

\* Math.sqrt of a whole number, in hundredths
SqrtOfWhole(n) == SqrtBetween(n * One * One, 0, n * One + 1)

Square(x) == x * x

RECURSIVE SumOfProducts(_, _, _)
SumOfProducts(vec1, vec2, i) ==
    IF i > Len(vec1) THEN 0
    ELSE vec1[i] * vec2[i] + SumOfProducts(vec1, vec2, i + 1)

\* genes || []
OrEmpty(field) == IF Present(field) THEN Value(field) ELSE <<>>

\* calculateVectorSimilarity: what a zero norm yields
ZeroNormSimilarity_Perfect == One
ZeroNormSimilarity == 0

CalculateVectorSimilarity(vec1, vec2) ==
    IF Len(vec1) # Len(vec2) THEN 0
    ELSE LET dotProduct == SumOfProducts(vec1, vec2, 1)
             norm1 == SumOfProducts(vec1, vec1, 1)
             norm2 == SumOfProducts(vec2, vec2, 1)
         IN IF norm1 = 0 \/ norm2 = 0 THEN ZeroNormSimilarity
            ELSE (dotProduct * One * One * One)
                     \div (SqrtOfWhole(norm1) * SqrtOfWhole(norm2))

CalculateEmotionalSimilarity(t1, t2) ==
    IF ~Present(t1.coordinates) \/ ~Present(t2.coordinates) THEN 0
    ELSE LET coords1 == Value(t1.coordinates)
             coords2 == Value(t2.coordinates)
             diff == Sqrt(Square(coords1.valence - coords2.valence)
                          + Square(coords1.energy - coords2.energy)
                          + Square(coords1.complexity - coords2.complexity)
                          + Square(coords1.tension - coords2.tension))
         IN Max(0, One - diff \div 2)

\* similarity and factors are summed in ten-thousandths and hundredths
CalculateTrackSimilarity(t1, t2) ==
    LET emotional == Present(t1.coordinates) /\ Present(t2.coordinates)
        genetic == Present(t1.sonic_dna) /\ Present(t2.sonic_dna)
        harmonicSim ==
            CalculateVectorSimilarity(
                OrEmpty(Value(t1.sonic_dna).harmonic_genes),
                OrEmpty(Value(t2.sonic_dna).harmonic_genes))
        rhythmicSim ==
            CalculateVectorSimilarity(
                OrEmpty(Value(t1.sonic_dna).rhythmic_genes),
                OrEmpty(Value(t2.sonic_dna).rhythmic_genes))
        similarity ==
            (IF emotional
             THEN CalculateEmotionalSimilarity(t1, t2) * EmotionalWeight
             ELSE 0)
            + (IF genetic
               THEN harmonicSim * GeneWeight + rhythmicSim * GeneWeight
               ELSE 0)
        factors == (IF emotional THEN EmotionalWeight ELSE 0)
                   + (IF genetic THEN GeneticWeight ELSE 0)
    IN IF factors > 0 THEN similarity \div factors ELSE DefaultSimilarity

\* Inputs: gene components of either sign, vectors of 0..MaxGenes components
GeneValues == {0 - 1, 0, 1}

GeneVectors == UNION {[1..k -> GeneValues] : k \in 0..MaxGenes}

ConstantVector(x) == [i \in 1..MaxGenes |-> x]

Point(v, e, c, t) ==
    [valence |-> v, energy |-> e, complexity |-> c, tension |-> t]

CoordinateInputs ==
    {<<>>, <<Point(0, 0, 0, 0)>>, <<Point(One, One, One, One)>>,
     <<Point(0, One, DefaultSimilarity, 0)>>}

SonicDna(h, r) == [harmonic_genes |-> h, rhythmic_genes |-> r]

SonicDnaInputs ==
    {<<>>} \cup
    {<<SonicDna(h, r)>> :
        h \in {<<>>} \cup {<<v>> : v \in GeneVectors},
        r \in {<<>>} \cup {<<ConstantVector(x)>> : x \in GeneValues}}

TrackInputs ==
    {[coordinates |-> c, sonic_dna |-> d] :
        c \in CoordinateInputs, d \in SonicDnaInputs}

InitSimilarity ==
    /\ tracks = <<>>
    /\ connections = <<>>
    /\ trackMap = CreateTrackMap(tracks, connections)
    /\ startTrackId = Null
    /\ endTrackId = Null
    /\ pc = "idle"
    /\ PathIdle
    /\ UIInit
    /\ PlayerIdle
    /\ track1 \in TrackInputs
    /\ track2 = BareTrack
    /\ simPc = "call"
    /\ FlowIdle
    /\ trackSimilarity = 0

TrackSimilarityCalled(t2) ==
    /\ simPc = "call"
    /\ track2' = t2
    /\ trackSimilarity' = CalculateTrackSimilarity(track1, t2)
    /\ simPc' = "done"
    /\ UNCHANGED track1
    /\ UNCHANGED pathVars
    /\ UNCHANGED dataVars
    /\ UNCHANGED uiVars
    /\ UNCHANGED playerVars
    /\ UNCHANGED flowVars

NextSimilarity == \E t2 \in TrackInputs : TrackSimilarityCalled(t2)

SpecSimilarity == InitSimilarity /\ [][NextSimilarity]_vars

----------------------------------------------------------------------------
(* Claims about calculateTrackSimilarity, checked under SpecSimilarity *)

Compared == simPc = "done"

\* C19: calculateTrackSimilarity lies in [0, 1] for every pair of tracks,
\* with coordinates in the normalized range and gene vectors of components
\* of either sign, any common length, possibly all zero.
C19_SimilarityInUnitInterval ==
    Compared => (0 <= trackSimilarity /\ trackSimilarity <= 100)

\* a gene vector that has a component other than 0
NonZero(genes) ==
    Present(genes) /\ \E i \in 1..Len(Value(genes)) : Value(genes)[i] # 0

SelfCompared ==
    /\ Compared
    /\ track1 = track2
    /\ Present(track1.coordinates)
    /\ Present(track1.sonic_dna)

\* C20 as stated: for a track with coordinates and sonic_dna,
\* calculateTrackSimilarity(t, t) is 1.0 whatever its gene vectors hold, an
\* all-zero, empty or missing vector included.
C20_SelfSimilarityPerfect == SelfCompared => trackSimilarity = 100

\* C20 as amended: for such a track calculateTrackSimilarity(t, t) is 0.4
\* plus 0.3 for each of the two gene vectors that has a non-zero component;
\* it is 1.0 only when both have one.
C20_SelfSimilarityByGenes ==
    SelfCompared =>
        trackSimilarity =
            40 + (IF NonZero(Value(track1.sonic_dna).harmonic_genes)
                  THEN 30 ELSE 0)
               + (IF NonZero(Value(track1.sonic_dna).rhythmic_genes)
                  THEN 30 ELSE 0)

\* a track with an all-zero harmonic vector was compared with itself
C20_Witness ==
    /\ SelfCompared
    /\ Present(Value(track1.sonic_dna).harmonic_genes)
    /\ Len(Value(Value(track1.sonic_dna).harmonic_genes)) > 0
    /\ ~NonZero(Value(track1.sonic_dna).harmonic_genes)
    /\ NonZero(Value(track1.sonic_dna).rhythmic_genes)

----------------------------------------------------------------------------
(* createGravitationalPath: the lifted flow path over the track positions *)

\* Coordinates are in hundredths.  A coordinate record carries `excess`:
\* the number of Math.sin(Math.PI) residues (1.2246467991473532e-16 each)
\* by which its y exceeds the hundredths value.
segments == 20
SinPiExcess == 1
AbsorbingHeight == 2

\* Math.sin(t * Math.PI) for t = j / segments, to the nearest hundredth
SinTable == <<16, 31, 45, 59, 71, 81, 89, 95, 99, 100,
              99, 95, 89, 81, 71, 59, 45, 31, 16>>

\* const curveHeight = Math.sin(t * Math.PI) * 1.0: sin(0) is 0, and
\* sin(Math.PI) is the double 1.2246467991473532e-16
CurveHeight(j) ==
    IF j = 0 THEN [hundredths |-> 0, excess |-> 0]
    ELSE IF j = segments THEN [hundredths |-> 0, excess |-> SinPiExcess]
    ELSE [hundredths |-> SinTable[j], excess |-> 0]

\* new THREE.Vector3().lerpVectors(startPos, endPos, t), t = j / segments
Lerp(a, b, j) == a + ((b - a) * j) \div segments

LerpVectors(startPos, endPos, j) ==
    [x |-> Lerp(startPos.x, endPos.x, j),
     y |-> Lerp(startPos.y, endPos.y, j),
     z |-> Lerp(startPos.z, endPos.z, j),
     excess |-> 0]

\* point.y += curveHeight, in double arithmetic: the sum with the residue
\* rounds back to y when y >= 2 or y < -2, and is above y otherwise
Lifted(point, curveHeight) ==
    [point EXCEPT
        !.y = @ + curveHeight.hundredths,
        !.excess = IF /\ point.y >= 0 - AbsorbingHeight * One
                      /\ point.y < AbsorbingHeight * One
                   THEN curveHeight.excess
                   ELSE 0]

\* the element pushed for segment i (0-based) and step j
FlowPoint(positions, i, j) ==
    [position |-> Lifted(LerpVectors(positions[i + 1], positions[i + 2], j),
                         CurveHeight(j)),
     trackIndex |-> i * segments + j,
     flow |-> j,
     segment |-> i]

(* Inputs *)
MaxPositions == 2
FlowHeights == {0 - 3, 0 - 2, 0, 1, 2, 5}

Position(x, y, z) == [x |-> x * One, y |-> y * One, z |-> z * One, excess |-> 0]

FlowPositions == {Position(x, y, 0) : x \in {0, 10}, y \in FlowHeights}

PositionLists ==
    UNION {[1..n -> FlowPositions] : n \in 0..MaxPositions}

InitFlow ==
    /\ tracks = <<>>
    /\ connections = <<>>
    /\ trackMap = CreateTrackMap(tracks, connections)
    /\ startTrackId = Null
    /\ endTrackId = Null
    /\ pc = "idle"
    /\ PathIdle
    /\ UIInit
    /\ PlayerIdle
    /\ SimilarityIdle
    /\ trackPositions \in PositionLists
    /\ flowPath = <<>>
    /\ flowPc = "call"

FlowFrame ==
    /\ UNCHANGED pathVars
    /\ UNCHANGED dataVars
    /\ UNCHANGED uiVars
    /\ UNCHANGED playerVars
    /\ UNCHANGED simVars

\* lines 962-966: path = [], positions
CreateGravitationalPath ==
    /\ flowPc = "call"
    /\ flowPath' = <<>>
    /\ flowPc' = "loop"
    /\ UNCHANGED trackPositions
    /\ FlowFrame

\* one iteration of the inner loop: the point of segment i, step j
PushFlowPoint ==
    /\ flowPc = "loop"
    /\ Len(flowPath) < (segments + 1) * (Len(trackPositions) - 1)
    /\ LET i == Len(flowPath) \div (segments + 1)
           j == Len(flowPath) % (segments + 1)
       IN flowPath' = Append(flowPath, FlowPoint(trackPositions, i, j))
    /\ UNCHANGED <<trackPositions, flowPc>>
    /\ FlowFrame

\* return path
FlowReturn ==
    /\ flowPc = "loop"
    /\ Len(flowPath) >= (segments + 1) * (Len(trackPositions) - 1)
    /\ flowPc' = "done"
    /\ UNCHANGED <<trackPositions, flowPath>>
    /\ FlowFrame

NextFlow == CreateGravitationalPath \/ PushFlowPoint \/ FlowReturn

SpecFlow == InitFlow /\ [][NextFlow]_vars

\* the points pushed for segment i (0-based) of a finished path
SegmentPoint(i, j) == flowPath[i * (segments + 1) + j + 1].position

\* the vertical component of a is strictly greater than that of b
Above(a, b) == a.y > b.y \/ (a.y = b.y /\ a.excess > b.excess)

\* C21: for every two consecutive track positions P0 and P1, the path
\* segment starts with a point equal to P0, ends with a point equal to P1,
\* and when P0 and P1 have the same height its midpoint is strictly higher
\* than both.
C21_FlowSegmentEndpoints ==
    flowPc = "done" =>
        \A i \in 0..(Len(trackPositions) - 2) :
            LET P0 == trackPositions[i + 1]
                P1 == trackPositions[i + 2]
            IN /\ SegmentPoint(i, 0) = P0
               /\ SegmentPoint(i, segments) = P1
               /\ P0.y = P1.y =>
                     /\ Above(SegmentPoint(i, segments \div 2), P0)
                     /\ Above(SegmentPoint(i, segments \div 2), P1)

----------------------------------------------------------------------------
(* The playlist: list buttons, navigation, clear-all, add similar, reload *)

\* the record of an operation that also keeps the playlist and the current
\* index it found
OpAfter(name, arg) ==
    [NoOp EXCEPT !.op = name, !.arg = arg,
                 !.before = [selectedTracks |-> selectedTracks,
                             currentTrackIndex |-> currentTrackIndex]]

\* what the operations of the playlist leave alone
PlaylistFrame ==
    /\ UNCHANGED lastAnchor
    /\ UNCHANGED pathVars
    /\ UNCHANGED dataVars
    /\ UNCHANGED simVars
    /\ UNCHANGED flowVars

\* updateSelectedTracksList: a non-empty list is redrawn and ends with
\* showPlaylistConnections; an empty one returns before it
SelectedTracksListUpdated(mode, ac, sel, tm) ==
    IF Len(sel) = 0 THEN ac ELSE ShowPlaylistConnections(mode, ac, sel, tm)

\* the remove button of a list item: removeFromSelectedTracks(trackId)
RemoveTrackButton(trackId) ==
    LET removed == RemoveFromSelectedTracks(
                       [selectedTracks |-> selectedTracks,
                        currentTrackIndex |-> currentTrackIndex,
                        localStorage |-> localStorage], trackId)
    IN
    /\ trackId \in SeqToSet(selectedTracks)
    /\ selectedTracks' = removed.selectedTracks
    /\ currentTrackIndex' = removed.currentTrackIndex
    /\ localStorage' = removed.localStorage
    /\ activeConnections' =
           ShowPlaylistConnections(discoveryMode, activeConnections,
                                   removed.selectedTracks, trackMap)
    /\ lastOp' = Op("removeFromSelectedTracks", "", trackId, FALSE)
    /\ UNCHANGED <<discoveryMode, pathfindingState, clickedSpheres,
                   similarityContext>>
    /\ PlaylistFrame

\* the keys 'c' and Escape: clearAllConnections
ClearAllConnections ==
    /\ activeConnections' = <<>>
    /\ clickedSpheres' = {}
    /\ selectedTracks' = <<>>
    /\ currentTrackIndex' = 0 - 1
    /\ localStorage' = <<>>
    /\ lastOp' = Op("clearAllConnections", "", Null, FALSE)
    /\ UNCHANGED <<discoveryMode, pathfindingState, similarityContext>>
    /\ PlaylistFrame

\* playNext: the index it moves to
NextIndex_NoWrap(cti, length) == cti + 1
NextIndex(cti, length) ==
    IF cti = 0 - 1 THEN 0 ELSE (cti + 1) % length

\* playPrevious: the index it moves to
PreviousIndex(cti, length) ==
    IF cti = 0 - 1 THEN length - 1
    ELSE IF cti <= 0 THEN length - 1
    ELSE cti - 1

\* playTrackByIndex: the index it leaves current
TrackByIndexPlayed(cti, index, length) ==
    IF index < 0 \/ index >= length THEN cti ELSE index

\* playNext and playPrevious, with playTrackByIndex
Navigate(name, index) ==
    /\ currentTrackIndex' =
           TrackByIndexPlayed(index, index, Len(selectedTracks))
    /\ activeConnections' =
           IF index < 0 \/ index >= Len(selectedTracks)
           THEN activeConnections
           ELSE SelectedTracksListUpdated(discoveryMode, activeConnections,
                                          selectedTracks, trackMap)
    /\ lastOp' = Op(name, "", Null,
                    index >= 0 /\ index < Len(selectedTracks))
    /\ UNCHANGED <<discoveryMode, pathfindingState, selectedTracks,
                   clickedSpheres, localStorage, similarityContext>>
    /\ PlaylistFrame

PlayNext ==
    IF Len(selectedTracks) = 0
    THEN /\ lastOp' = Op("playNext", "", Null, FALSE)
         /\ UNCHANGED <<discoveryMode, pathfindingState, selectedTracks,
                        currentTrackIndex, clickedSpheres, localStorage,
                        similarityContext, activeConnections>>
         /\ PlaylistFrame
    ELSE Navigate("playNext",
                  NextIndex(currentTrackIndex, Len(selectedTracks)))

PlayPrevious ==
    IF Len(selectedTracks) = 0
    THEN /\ lastOp' = Op("playPrevious", "", Null, FALSE)
         /\ UNCHANGED <<discoveryMode, pathfindingState, selectedTracks,
                        currentTrackIndex, clickedSpheres, localStorage,
                        similarityContext, activeConnections>>
         /\ PlaylistFrame
    ELSE Navigate("playPrevious",
                  PreviousIndex(currentTrackIndex, Len(selectedTracks)))

\* the orders in which a forEach may visit a set whose insertion order the
\* state does not keep
Orders(S) ==
    {order \in [1..Cardinality(S) -> S] :
        \A i, j \in 1..Cardinality(S) : order[i] = order[j] => i = j}

\* addSimilarTracksToPlaylist: the index it leaves current
SimilarTrackIndex(cti, length) ==
    IF cti = 0 - 1 /\ length > 0 THEN 0 ELSE cti

\* addSimilarTracksToPlaylist
AddSimilarTracksToPlaylist ==
    LET tracksToAdd == similarityContext \cap CatalogIds IN
    IF tracksToAdd = {}
    THEN /\ lastOp' = Op("addSimilarTracksToPlaylist", "", Null, FALSE)
         /\ UNCHANGED <<discoveryMode, pathfindingState, selectedTracks,
                        currentTrackIndex, clickedSpheres, localStorage,
                        similarityContext, activeConnections>>
         /\ PlaylistFrame
    ELSE \E order \in Orders(tracksToAdd) :
         LET pushed == PushPathTracks(order, tracks, trackMap,
                           [selectedTracks |-> selectedTracks,
                            clickedSpheres |-> clickedSpheres,
                            addedCount |-> 0])
         IN
         /\ selectedTracks' = pushed.selectedTracks
         /\ clickedSpheres' = pushed.clickedSpheres
         /\ currentTrackIndex' =
                SimilarTrackIndex(currentTrackIndex,
                                  Len(pushed.selectedTracks))
         /\ localStorage' = pushed.selectedTracks
         /\ activeConnections' =
                ShowPlaylistConnections(discoveryMode, activeConnections,
                                        pushed.selectedTracks, trackMap)
         /\ lastOp' = OpAfter("addSimilarTracksToPlaylist", Null)
         /\ UNCHANGED <<discoveryMode, pathfindingState, similarityContext>>
         /\ PlaylistFrame

\* a new session: the constructor loads the stored list, init() restores
\* the selections of the tracks that have a sphere
Reload ==
    /\ selectedTracks' = localStorage
    /\ currentTrackIndex' = 0 - 1
    /\ clickedSpheres' = RestoredSpheres(localStorage, tracks)
    /\ activeConnections' =
           ShowPlaylistConnections("none", <<>>, localStorage, trackMap)
    /\ discoveryMode' = "none"
    /\ pathfindingState' = ResetPathfindingState(pathfindingState)
    /\ similarityContext' = {}
    /\ lastOp' = OpAfter("reload", Null)
    /\ UNCHANGED localStorage
    /\ PlaylistFrame

NextPlaylist ==
    \/ ToggleSimilarMode
    \/ \E type \in {"start", "end"} : SetPathfindingMode(type)
    \/ \E trackId \in CatalogIds : Click(trackId)
    \/ FindShortestPath
    \/ \E trackId \in SeqToSet(selectedTracks) : RemoveTrackButton(trackId)
    \/ ClearAllConnections
    \/ PlayNext
    \/ PlayPrevious
    \/ AddSimilarTracksToPlaylist
    \/ Reload

SpecPlaylist == Init /\ [][NextPlaylist]_vars

----------------------------------------------------------------------------
(* Claims about the playlist *)

C23_SimilarClickShowsRelatives ==
    (lastOp.op = "click" /\ discoveryMode = "similar") =>
        /\ similarityContext = {lastOp.arg} \cup CatalogJoinedTo(lastOp.arg)
        /\ lastOp.arg \in DOMAIN activeConnections

\* C27: when findShortestPath finds a path while a track is current, the
\* same track is current afterwards.
C27_CurrentTrackKept ==
    (PathFound /\ lastOp.before.currentTrackIndex # 0 - 1) =>
        /\ currentTrackIndex >= 0
        /\ currentTrackIndex < Len(selectedTracks)
        /\ selectedTracks[currentTrackIndex + 1] =
               lastOp.before.selectedTracks[
                   lastOp.before.currentTrackIndex + 1]

\* C28: after every operation a track id is in clickedSpheres exactly when
\* the track is in the playlist.
C28_ClickedIffSelected ==
    lastOp.op # "none" => clickedSpheres = SeqToSet(selectedTracks)

\* C29: similarityContext is non-empty only in Similar mode.
C29_ContextOnlyInSimilarMode ==
    similarityContext # {} => discoveryMode = "similar"

\* C30: currentTrackIndex is -1 or an index of the playlist, and -1 when
\* the playlist is empty.
C30_CurrentTrackIndexInRange ==
    /\ currentTrackIndex >= 0 - 1
    /\ currentTrackIndex < Len(selectedTracks)
    /\ Len(selectedTracks) = 0 => currentTrackIndex = 0 - 1

\* playNext moved on from the last track of a playlist of two
C30_Witness ==
    /\ lastOp.op = "playNext"
    /\ lastOp.played
    /\ Len(selectedTracks) >= 2
    /\ currentTrackIndex = 0

----------------------------------------------------------------------------
(* The earlier calculateShortestPath: Dijkstra over 1 - weight alone *)

\* neighbors.forEach(...): st = [distances, previous]; vis is the
\* complement of the unvisited set
RECURSIVE PlainRelax(_, _, _, _)
PlainRelax(neighbors, cur, vis, st) ==
    IF neighbors = <<>> THEN st
    ELSE LET neighbor == Head(neighbors)
             distance == st.distances[cur] + (One - neighbor.weight)
         IN
         IF neighbor.target \notin vis
            /\ distance < st.distances[neighbor.target]
         THEN PlainRelax(Tail(neighbors), cur, vis,
                  [distances |-> [st.distances EXCEPT
                                      ![neighbor.target] = distance],
                   previous |-> [st.previous EXCEPT
                                      ![neighbor.target] = cur]])
         ELSE PlainRelax(Tail(neighbors), cur, vis, st)

\* while (unvisited.size > 0): the set is visited in catalog order
RECURSIVE PlainSearch(_, _, _, _, _)
PlainSearch(trks, g, end, vis, st) ==
    IF vis = SeqToSet(trks) THEN st
    ELSE LET sel == SelectCurrent(trks, 1, st.distances, vis, Null, Infinity)
             cur == sel.current
         IN
         IF cur = Null \/ sel.smallestDistance = Infinity \/ cur = end
         THEN st
         ELSE PlainSearch(trks, g, end, vis \cup {cur},
                  PlainRelax(Neighbors(g, cur), cur, vis \cup {cur}, st))

\* the value the call returns, for an end id that is a catalog track
PlainShortestPath(trks, conns, tm, start, end) ==
    IF ~tm.built THEN NullPath
    ELSE LET st == PlainSearch(trks, BuildGraph(trks, conns), end, {},
                       [distances |-> InitDistances(trks, start),
                        previous |-> InitPrevious(trks)])
             p == Reconstruct(st.previous, end, <<>>)
         IN IF Len(p) > 1 /\ p[1] = start THEN p ELSE NullPath

----------------------------------------------------------------------------
(* Claims about the length bias, checked under SpecPath *)

\* the hop counts and summed 1 - w of the routes from cur to end that
\* visit no track twice and none of seen
RECURSIVE RoutesFrom(_, _, _, _)
RoutesFrom(g, cur, end, seen) ==
    IF cur = end THEN {[hops |-> 0, base |-> 0]}
    ELSE UNION {
             {[hops |-> r.hops + 1, base |-> r.base + (One - g[cur][k].weight)] :
                  r \in RoutesFrom(g, g[cur][k].target, end,
                                   seen \cup {g[cur][k].target})} :
             k \in {j \in DOMAIN g[cur] : g[cur][j].target \notin seen}}

Routes ==
    IF startTrackId \in CatalogIds /\ endTrackId \in CatalogIds
    THEN RoutesFrom(BuildGraph(tracks, connections), startTrackId,
                    endTrackId, {startTrackId})
    ELSE {}

PlainResult ==
    PlainShortestPath(tracks, connections, trackMap, startTrackId,
                      endTrackId)

\* the summed 1 - w of a returned path, over the entries it was built from
RECURSIVE BaseOf(_, _)
BaseOf(g, p) ==
    IF Len(p) < 2 THEN 0
    ELSE LET entries == {k \in DOMAIN g[p[1]] : g[p[1]][k].target = p[2]}
             first == CHOOSE k \in entries : \A j \in entries : k <= j
         IN (One - g[p[1]][first].weight) + BaseOf(g, Tail(p))

\* a chain with the connection 1 - 3 of weight 0.5, searched from track 1
\* to one of the last two tracks
ChordFixture ==
    /\ Len(tracks) > 3
    /\ connections = Chain(Len(tracks)) \o <<Conn(1, 3, 50, Absent)>>
    /\ startTrackId = 1
    /\ endTrackId \in {Len(tracks) - 1, Len(tracks)}

\* C24: the length-biased search and the plain search over 1 - w are not
\* equivalent: on every chain with the chord 1 - 3 of weight 0.5 they return
\* different paths from track 1 to the last tracks.
C24_PathfindersDiverge ==
    (Returned /\ ChordFixture) => result # PlainResult

\* both searches return a path, and the two paths differ
C24_Witness ==
    /\ Returned
    /\ ChordFixture
    /\ result # NullPath
    /\ PlainResult # NullPath
    /\ result # PlainResult

\* C25: of two routes with the same summed 1 - w and at most
\* targetPathLength hops each, the search returns the one whose hop count
\* is closer to targetPathLength.
C25_CloserToTarget ==
    (Returned /\ result # NullPath /\ Len(result) - 1 <= targetPathLength) =>
        \A r \in Routes :
            (/\ r.hops <= targetPathLength
             /\ r.base = BaseOf(BuildGraph(tracks, connections), result)) =>
                Abs(Len(result) - 1 - targetPathLength) <=
                    Abs(r.hops - targetPathLength)

\* C26: when some route from start to end, two different catalog tracks,
\* has at most maxPathLength hops, the search returns a path.
C26_RouteWithinBoundFound ==
    (/\ Returned
     /\ startTrackId # endTrackId
     /\ \E r \in Routes : r.hops <= maxPathLength) =>
        result # NullPath
====
